---------------------------- MODULE Spec2Model ----------------------------
(***************************************************************************)
(* Model of src/app.py: the British Airways review dashboard.  One script  *)
(* run is load_reviews -> score_sentiment -> sidebar widgets -> filter ->  *)
(* render; the hosting framework re-executes the script on every user     *)
(* interaction, and the two decorated functions are memoized for the       *)
(* lifetime of the process.                                                *)
(*                                                                         *)
(* Text is a sequence of tokens.  Each token stands for a fixed run of     *)
(* characters, chosen so that every occurrence of a marker literal in the  *)
(* character string is an occurrence of the token pattern and conversely:  *)
(*   TokTrip = "<check mark> Trip"   TokNot = "Not"   TokSp = " "          *)
(*   TokVer  = "Verified |"          TokW   = one non-blank character      *)
(* Compound scores are VADER's four-decimal values, held as integers in    *)
(* units of 0.0001.                                                         *)
(***************************************************************************)
EXTENDS Integers, Sequences, FiniteSets, TLC

VARIABLES
    files,        \* path -> the table stored there (exists = FALSE: no such file)
    load_cache,   \* st.cache_data entry of load_reviews(): hit and the frame
    score_cache,  \* st.cache_data entries of score_sentiment: text series -> frame
    lexicon,      \* the analyzer's score of each text it has been asked about
    model_calls,  \* text series -> number of times the body of score_sentiment ran on it
    load_runs,    \* number of times the body of load_reviews ran to completion
    session,      \* widget values held by the browser session (fresh: none yet)
    pc,           \* position of the script run
    run,          \* the names bound by the current script run
    presented,    \* what the current run has handed to the presentation layer
    narrowed,     \* the result the last criteria change replaced left rows out
    arg,          \* a text or a score given to the normalizer or the bucketing alone
    res           \* what it returned

vars == <<files, load_cache, score_cache, lexicon, model_calls, load_runs,
          session, pc, run, presented, narrowed, arg, res>>

---------------------------------------------------------------------------
(* Bounds of the model. *)

MaxLen == 6

MaxRows == 2

MaxFileRows == 1

---------------------------------------------------------------------------
(* Text and the normalizer, load_reviews lines 30-39. *)

TokTrip == "<check> Trip"
TokNot == "Not"
TokSp == " "
TokVer == "Verified |"
TokW == "w"

Tokens == {TokTrip, TokNot, TokSp, TokVer, TokW}

\* r"<check> Trip Verified \|"
MarkerVerified == <<TokTrip, TokSp, TokVer>>

\* r"Not Verified \|"
MarkerNotVerified == <<TokNot, TokSp, TokVer>>

\* Series.str.replace(pat, "", regex=True): re.sub, leftmost non-overlapping
\* matches in one left-to-right pass.
MatchAt(s, p, k) == \A i \in 1..Len(p) : s[k + i] = p[i]

RECURSIVE StrReplace(_, _)
StrReplace(s, p) ==
    LET starts == {k \in 0..(Len(s) - Len(p)) : MatchAt(s, p, k)}
    IN  IF starts = {} THEN s
        ELSE LET k == CHOOSE m \in starts : \A n \in starts : m <= n
             IN  SubSeq(s, 1, k) \o StrReplace(SubSeq(s, k + Len(p) + 1, Len(s)), p)

RECURSIVE LStrip(_)
LStrip(s) == IF s # <<>> /\ Head(s) = TokSp THEN LStrip(Tail(s)) ELSE s

RECURSIVE RStrip(_)
RStrip(s) ==
    IF s # <<>> /\ s[Len(s)] = TokSp THEN RStrip(SubSeq(s, 1, Len(s) - 1)) ELSE s

\* str.strip()
StrStrip(s) == RStrip(LStrip(s))

\* len(str.split()): the number of maximal runs of non-blank characters.  A run
\* starts at a non-blank token that follows a blank or opens the text, and once
\* more after the blank inside TokTrip and inside TokVer.
SplitLen(s) ==
    Cardinality({i \in 1..Len(s) : s[i] # TokSp /\ (i = 1 \/ s[i - 1] = TokSp)})
        + Cardinality({i \in 1..Len(s) : s[i] \in {TokTrip, TokVer}})

\* str.contains("Trip Verified", case=False)
IsVerified(review) ==
    \E k \in 1..(Len(review) - 2) :
        review[k] = TokTrip /\ review[k + 1] = TokSp /\ review[k + 2] = TokVer

VerificationLabel(v) == IF v THEN "Trip Verified" ELSE "Not Verified"

CleanReview(review) ==
    StrStrip(StrReplace(StrReplace(review, MarkerVerified), MarkerNotVerified))

\* One row of the frame load_reviews returns, from the row's `reviews` value.
NormalizeRow(raw) ==
    LET Review == StrStrip(raw)
        clean == CleanReview(Review)
    IN  [Review |-> Review,
         is_verified |-> IsVerified(Review),
         verification_label |-> VerificationLabel(IsVerified(Review)),
         clean_review |-> clean,
         word_count |-> SplitLen(clean)]

---------------------------------------------------------------------------
(* Bucketing, score_sentiment lines 49-53. *)

\* bins=[-1.01, -0.05, 0.05, 1.01]
Bins == <<-10100, -500, 500, 10100>>

\* labels=["Negative", "Neutral", "Positive"]
Labels == <<"Negative", "Neutral", "Positive">>

NaN == "NaN"

\* numpy searchsorted(bins, x, side="left"): how many edges lie strictly below x.
SearchSortedLeft(edges, x) == Cardinality({i \in 1..Len(edges) : edges[i] < x})

SearchSortedRight(edges, x) == Cardinality({i \in 1..Len(edges) : edges[i] <= x})

CutLeftClosed(x) ==
    LET ids == SearchSortedRight(Bins, x)
    IN  IF ids = 0 \/ ids = Len(Bins) THEN NaN ELSE Labels[ids]

\* pd.cut(x, bins, labels) with the default right=True: bin i is (bins[i], bins[i+1]];
\* a value in no bin is NaN.
Cut(x) ==
    LET ids == SearchSortedLeft(Bins, x)
    IN  IF ids = 0 \/ ids = Len(Bins) THEN NaN ELSE Labels[ids]

\* The compound scores the analyzer can return: -1.0000 .. 1.0000.
ScoreRange == -10000..10000


---------------------------------------------------------------------------
(* The dataset files, load_reviews lines 21-40. *)

\* DATA_DIR / "BA_reviews_cleaned.csv"
Preferred == "BA_reviews_cleaned.csv"

\* DATA_DIR / "BA_reviews.csv"
Secondary == "BA_reviews.csv"

Paths == {Preferred, Secondary}

\* k one-letter words, a blank between neighbours.
Words(k) == [i \in 1..(2 * k - 1) |-> IF i % 2 = 1 THEN TokW ELSE TokSp]

\* Review values a file may hold: a verified review of 60 words and an
\* unverified one of 3 words, each behind its marker.
SampleVerified == MarkerVerified \o <<TokSp>> \o Words(60)

SampleNotVerified == MarkerNotVerified \o <<TokSp>> \o Words(3)

Samples == {SampleVerified, SampleNotVerified}

\* Header rows: an unnamed index column before `reviews`; `reviews` alone;
\* an index column and a text column that is not called `reviews`.
Headers == {<<"Unnamed: 0", "reviews">>, <<"reviews">>, <<"Unnamed: 0", "text">>}

\* Datasets of at least one row (on a file with a header only, line 77 fails
\* converting the NaN minimum to int).
RowLists(n) == UNION {[1..k -> Samples] : k \in 1..n}

\* A table is its header and the values of its free-text column.
TablesOf(n) == [exists : {TRUE}, header : Headers, rows : RowLists(n)]

AbsentFile == [exists |-> FALSE, header |-> <<>>, rows |-> <<>>]

FilesOf(n) == TablesOf(n) \cup {AbsentFile}

Columns(header) == {header[i] : i \in 1..Len(header)}

\* df.rename(columns={df.columns[0]: "index"}).drop(columns=["index"], errors="ignore")
RenameDrop(header) ==
    LET renamed == [i \in 1..Len(header) |-> IF i = 1 THEN "index" ELSE header[i]]
    IN  SelectSeq(renamed, LAMBDA c : c # "index")

NoError == ""
FileNotFoundError == "FileNotFoundError"
MissingColumnError == "ValueError: Expected a 'reviews' column in the dataset."
KeyError == "KeyError: 'reviews'"
SliderError == "StreamlitAPIException"

LoadErrors == {FileNotFoundError, MissingColumnError, KeyError}

CsvPathSecondaryFirst(fs) == IF fs[Secondary].exists THEN Secondary ELSE Preferred

\* csv_path: the preferred file, the secondary one when the preferred is absent.
CsvPath(fs) == IF fs[Preferred].exists THEN Preferred ELSE Secondary

\* The body of load_reviews on the file system fs: the error it raises, or the
\* frame it returns (one row per value of the `reviews` column, RangeIndex kept).
LoadReviews(fs) ==
    LET csv_path == CsvPath(fs)
        table == fs[csv_path]
        fail(e) == [err |-> e, csv_path |-> csv_path, df |-> <<>>]
    IN  IF ~table.exists THEN fail(FileNotFoundError)
        ELSE IF "reviews" \notin Columns(table.header) THEN fail(MissingColumnError)
        ELSE IF "reviews" \notin Columns(RenameDrop(table.header)) THEN fail(KeyError)
        ELSE [err |-> NoError,
              csv_path |-> csv_path,
              df |-> [i \in 1..Len(table.rows) |->
                        [idx |-> i,
                         Review |-> NormalizeRow(table.rows[i]).Review,
                         is_verified |-> NormalizeRow(table.rows[i]).is_verified,
                         verification_label |-> NormalizeRow(table.rows[i]).verification_label,
                         clean_review |-> NormalizeRow(table.rows[i]).clean_review,
                         word_count |-> NormalizeRow(table.rows[i]).word_count]]]

LoadCacheNeverHits(cache) == FALSE

\* @st.cache_data on a function of no arguments: one entry, looked up by the
\* function alone, kept until the process ends.  An exception is not stored.

LoadCacheHit(cache) == cache.hit

EmptyLoadCache == [hit |-> FALSE, df |-> <<>>]


---------------------------------------------------------------------------
(* Scoring, score_sentiment lines 45-57. *)

\* Compound values the analyzer returns in the pipeline runs: the upper edge
\* of Negative, the upper edge of Neutral, and the first value above it.
ScoreSamples == {-500, 500, 501}

TextSeries(df) == [i \in 1..Len(df) |-> df[i].clean_review]

ScoreCacheNeverHits(cache, key) == FALSE

\* @st.cache_data on score_sentiment(text_series): entries keyed by the
\* content of the series.

ScoreCacheHit(cache, key) == key \in DOMAIN cache

\* The frame score_sentiment builds from the analyzer's scores f.
SentimentFrame(series, f) ==
    [i \in 1..Len(series) |->
        [compound |-> f[series[i]], sentiment_label |-> Cut(f[series[i]])]]

\* pd.concat([reviews_df, sentiment_scores], axis=1)
Concat(df, sent) ==
    [i \in 1..Len(df) |->
        [idx |-> df[i].idx,
         Review |-> df[i].Review,
         is_verified |-> df[i].is_verified,
         verification_label |-> df[i].verification_label,
         clean_review |-> df[i].clean_review,
         word_count |-> df[i].word_count,
         compound |-> sent[i].compound,
         sentiment_label |-> sent[i].sentiment_label]]

---------------------------------------------------------------------------
(* Sidebar widgets, lines 64-85, and the filter, lines 87-91. *)

\* max(word_min, 50)
WordFloor == 50

Max(a, b) == IF a >= b THEN a ELSE b

SeqMin(df) == CHOOSE m \in {df[i].word_count : i \in 1..Len(df)} :
                  \A i \in 1..Len(df) : m <= df[i].word_count

SeqMax(df) == CHOOSE m \in {df[i].word_count : i \in 1..Len(df)} :
                  \A i \in 1..Len(df) : m >= df[i].word_count

DefaultLow(word_min) == Max(word_min, WordFloor)

VerificationOptions(df) == {df[i].verification_label : i \in 1..Len(df)}

SentimentOptions == {Labels[i] : i \in 1..Len(Labels)}

FreshSession ==
    [fresh |-> TRUE, verification |-> {}, sentiment |-> {}, low |-> 0, high |-> 0]

WidgetValuesIgnoreSession(sess, defaults) == defaults

\* A widget returns the value the session holds for it, its default on the
\* session's first run.

WidgetValues(sess, defaults) == IF sess.fresh THEN defaults ELSE sess

\* Series.isin(values)
IsIn(column, values) == [i \in 1..Len(column) |-> column[i] \in values]

BetweenExclusive(column, left, right) ==
    [i \in 1..Len(column) |-> left < column[i] /\ column[i] < right]

\* Series.between(left, right), inclusive="both"
Between(column, left, right) ==
    [i \in 1..Len(column) |-> left <= column[i] /\ column[i] <= right]

Column(df, name) == [i \in 1..Len(df) |-> df[i][name]]

\* df[mask]: the rows whose mask entry is true, in order, index kept.
BoolIndex(df, mask) ==
    LET keep == SelectSeq([i \in 1..Len(df) |-> i], LAMBDA i : mask[i])
    IN  [k \in 1..Len(keep) |-> df[keep[k]]]

FilterRows(df, verification_filter, sentiment_filter, min_words, max_words) ==
    LET m1 == IsIn(Column(df, "verification_label"), verification_filter)
        m2 == IsIn(Column(df, "sentiment_label"), sentiment_filter)
        m3 == Between(Column(df, "word_count"), min_words, max_words)
    IN  BoolIndex(df, [i \in 1..Len(df) |-> m1[i] /\ m2[i] /\ m3[i]])

---------------------------------------------------------------------------
(* Presentation, lines 93-164. *)

MetricsBranch ==
    {"metrics", "sentiment_chart", "verification_chart", "longest", "shortest", "table"}

RenderSignalsAlwaysMetrics(filtered_df) == MetricsBranch

\* if filtered_df.empty: st.warning(...) else: metrics, charts, reviews.
RenderSignals(filtered_df) ==
    IF filtered_df = <<>> THEN {"warning"} ELSE MetricsBranch

NothingPresented == [signals |-> {}, frame |-> <<>>, reviews |-> 0, positive |-> 0]

Present(filtered_df) ==
    [signals |-> RenderSignals(filtered_df),
     frame |-> filtered_df,
     reviews |-> Len(filtered_df),
     positive |-> Cardinality({i \in 1..Len(filtered_df) :
                                  filtered_df[i].sentiment_label = "Positive"})]


---------------------------------------------------------------------------
(* The script run. *)

BlankRun ==
    [reached |-> {}, load_hit |-> FALSE, score_hit |-> FALSE, csv_path |-> "",
     err |-> NoError, reviews_df |-> <<>>, word_min |-> 0, word_max |-> 0,
     default_low |-> 0, slider_max |-> 0, verification_filter |-> {},
     sentiment_filter |-> {}, min_words |-> 0, max_words |-> 0,
     filtered_df |-> <<>>]

\* An uncaught exception ends the run; the framework shows it.
Fail(r, e) ==
    /\ run' = [r EXCEPT !.err = e]
    /\ presented' = [NothingPresented EXCEPT !.signals = {"exception"}]
    /\ pc' = "failed"

\* Line 43: reviews_df = load_reviews()
Load ==
    /\ pc = "load"
    /\ IF LoadCacheHit(load_cache)
       THEN /\ run' = [run EXCEPT !.reached = @ \cup {"load"}, !.load_hit = TRUE,
                                  !.reviews_df = load_cache.df]
            /\ pc' = "score"
            /\ UNCHANGED <<load_cache, load_runs, presented>>
       ELSE LET r == LoadReviews(files)
            IN  IF r.err # NoError
                THEN /\ Fail([run EXCEPT !.reached = @ \cup {"load"},
                                            !.csv_path = r.csv_path], r.err)
                     /\ UNCHANGED <<load_cache, load_runs>>
                ELSE /\ run' = [run EXCEPT !.reached = @ \cup {"load"},
                                           !.csv_path = r.csv_path,
                                           !.reviews_df = r.df]
                     /\ load_cache' = [hit |-> TRUE, df |-> r.df]
                     /\ load_runs' = load_runs + 1
                     /\ pc' = "score"
                     /\ UNCHANGED presented
    /\ UNCHANGED <<files, score_cache, lexicon, model_calls, session, narrowed, arg, res>>

\* Lines 56-57: score_sentiment(reviews_df["clean_review"]) and the concat.
Score ==
    /\ pc = "score"
    /\ LET series == TextSeries(run.reviews_df)
           texts == {series[i] : i \in 1..Len(series)}
       IN  IF ScoreCacheHit(score_cache, series)
           THEN /\ run' = [run EXCEPT !.reached = @ \cup {"score"}, !.score_hit = TRUE,
                                      !.reviews_df = Concat(@, score_cache[series])]
                /\ UNCHANGED <<score_cache, lexicon, model_calls>>
           ELSE \E f \in [texts -> ScoreSamples] :
                /\ \A t \in texts \cap DOMAIN lexicon : f[t] = lexicon[t]
                /\ lexicon' = f @@ lexicon
                /\ score_cache' = (series :> SentimentFrame(series, f)) @@ score_cache
                /\ model_calls' =
                       (series :> (IF series \in DOMAIN model_calls
                                   THEN model_calls[series] + 1 ELSE 1)) @@ model_calls
                /\ run' = [run EXCEPT !.reached = @ \cup {"score"},
                                      !.reviews_df = Concat(@, SentimentFrame(series, f))]
    /\ pc' = "widgets"
    /\ UNCHANGED <<files, load_cache, load_runs, session, presented, narrowed, arg, res>>

\* Lines 64-85: the two multiselects and the word-count slider.  A default
\* lower handle above word_max is outside the source: the framework either
\* rejects it or swaps the handles and widens the slider, by its version.
Widgets ==
    /\ pc = "widgets"
    /\ LET df == run.reviews_df
           word_min == SeqMin(df)
           word_max == SeqMax(df)
           default_low == DefaultLow(word_min)
           sized == [run EXCEPT !.reached = @ \cup {"widgets"}, !.word_min = word_min,
                                !.word_max = word_max, !.default_low = default_low]
           accept(lo, hi, top) ==
               LET defaults == [fresh |-> FALSE,
                                verification |-> VerificationOptions(df),
                                sentiment |-> SentimentOptions,
                                low |-> lo, high |-> hi]
                   v == WidgetValues(session, defaults)
               IN  /\ run' = [sized EXCEPT !.slider_max = top,
                                           !.verification_filter = v.verification,
                                           !.sentiment_filter = v.sentiment,
                                           !.min_words = v.low,
                                           !.max_words = v.high]
                   /\ session' = IF session.fresh THEN defaults ELSE session
                   /\ pc' = "filter"
                   /\ UNCHANGED presented
       IN  IF default_low <= word_max
           THEN accept(default_low, word_max, word_max)
           ELSE \/ accept(word_max, default_low, default_low)
                \/ /\ Fail(sized, SliderError)
                   /\ UNCHANGED session
    /\ UNCHANGED <<files, load_cache, score_cache, lexicon, model_calls, load_runs,
                   narrowed, arg, res>>

\* Lines 87-91.
Filter ==
    /\ pc = "filter"
    /\ run' = [run EXCEPT !.reached = @ \cup {"filter"},
                          !.filtered_df = FilterRows(run.reviews_df,
                                                     run.verification_filter,
                                                     run.sentiment_filter,
                                                     run.min_words, run.max_words)]
    /\ pc' = "render"
    /\ UNCHANGED <<files, load_cache, score_cache, lexicon, model_calls, load_runs,
                   session, presented, narrowed, arg, res>>

\* Lines 93-164.
Render ==
    /\ pc = "render"
    /\ run' = [run EXCEPT !.reached = @ \cup {"render"}]
    /\ presented' = Present(run.filtered_df)
    /\ pc' = "done"
    /\ UNCHANGED <<files, load_cache, score_cache, lexicon, model_calls, load_runs,
                   session, narrowed, arg, res>>

\* The framework re-executes the script with the session's widget values.
Rerun ==
    /\ pc \in {"done", "failed"}
    /\ pc' = "load"
    /\ run' = BlankRun
    /\ presented' = NothingPresented
    /\ UNCHANGED <<files, load_cache, score_cache, lexicon, model_calls, load_runs,
                   session, narrowed, arg, res>>

\* Handle positions offered to the user: the ends of the slider, the row
\* lengths and the floor.
Marks == {run.word_min, run.slider_max, WordFloor}
             \cup {run.reviews_df[i].word_count : i \in 1..Len(run.reviews_df)}

\* The user moves one widget; the framework stores the value and re-executes.
Interact(chosen) ==
    /\ pc = "done"
    /\ chosen # session
    /\ session' = chosen
    /\ narrowed' = (Len(presented.frame) < Len(run.reviews_df))
    /\ pc' = "load"
    /\ run' = BlankRun
    /\ presented' = NothingPresented
    /\ UNCHANGED <<files, load_cache, score_cache, lexicon, model_calls, load_runs,
                   arg, res>>

ChangeVerification ==
    \E v \in SUBSET VerificationOptions(run.reviews_df) :
        Interact([session EXCEPT !.verification = v])

ChangeSentiment ==
    \E s \in SUBSET SentimentOptions : Interact([session EXCEPT !.sentiment = s])

ChangeWordRange ==
    \E lo \in Marks, hi \in Marks :
        /\ run.word_min <= lo /\ lo <= hi /\ hi <= run.slider_max
        /\ Interact([session EXCEPT !.low = lo, !.high = hi])

ChangeCriteria == ChangeVerification \/ ChangeSentiment \/ ChangeWordRange

\* A dataset file is written, replaced or removed between two script runs
\* (pc = "load": a run is due and has not read the files yet).
SourceChange ==
    /\ pc = "load"
    /\ \E p \in Paths, t \in FilesOf(MaxFileRows) :
        /\ t # files[p]
        /\ files' = [files EXCEPT ![p] = t]
    /\ UNCHANGED <<load_cache, score_cache, lexicon, model_calls, load_runs, session,
                   pc, run, presented, narrowed, arg, res>>

InitState ==
    /\ load_cache = EmptyLoadCache
    /\ score_cache = <<>>
    /\ lexicon = <<>>
    /\ model_calls = <<>>
    /\ load_runs = 0
    /\ session = FreshSession
    /\ run = BlankRun
    /\ presented = NothingPresented
    /\ narrowed = FALSE

InitProcess ==
    /\ pc = "load"
    /\ arg = <<>>
    /\ res = <<>>
    /\ InitState

\* The process starts on any content of the data directory; the files may
\* change between runs.
Init ==
    /\ files \in [Paths -> FilesOf(MaxFileRows)]
    /\ InitProcess

Next == Load \/ Score \/ Widgets \/ Filter \/ Render \/ Rerun \/ SourceChange

Spec == Init /\ [][Next]_vars

\* The process starts on a well-formed preferred file; the user works the
\* widgets.
InitFilter ==
    /\ files \in {[p \in Paths |-> IF p = Preferred THEN t ELSE AbsentFile] :
                     t \in {u \in TablesOf(MaxRows) : u.header = <<"Unnamed: 0", "reviews">>}}
    /\ InitProcess

NextFilter == Load \/ Score \/ Widgets \/ Filter \/ Render \/ Rerun \/ ChangeCriteria

SpecFilter == InitFilter /\ [][NextFilter]_vars

---------------------------------------------------------------------------
(* The normalizer and the bucketing on their own, over all bounded inputs. *)

Strings(n) == UNION {[1..k -> Tokens] : k \in 0..n}

NormalizeStep ==
    /\ pc = "input"
    /\ res' = NormalizeRow(arg)
    /\ pc' = "output"
    /\ UNCHANGED <<files, load_cache, score_cache, lexicon, model_calls, load_runs,
                   session, run, presented, narrowed, arg>>

InitClean ==
    /\ arg \in Strings(MaxLen)
    /\ res = <<>>
    /\ pc = "input"
    /\ files = [p \in Paths |-> AbsentFile]
    /\ InitState

SpecClean == InitClean /\ [][NormalizeStep]_vars

CutStep ==
    /\ pc = "input"
    /\ res' = Cut(arg)
    /\ pc' = "output"
    /\ UNCHANGED <<files, load_cache, score_cache, lexicon, model_calls, load_runs,
                   session, run, presented, narrowed, arg>>

InitCut ==
    /\ arg \in ScoreRange
    /\ res = <<>>
    /\ pc = "input"
    /\ files = [p \in Paths |-> AbsentFile]
    /\ InitState

SpecCut == InitCut /\ [][CutStep]_vars

---------------------------------------------------------------------------
(* Properties. *)

\* Text s holds the literal p.
Contains(s, p) ==
    \E k \in 0..(Len(s) - Len(p)) : \A i \in 1..Len(p) : s[k + i] = p[i]

\* The criteria of the current run pick row r.
Matches(r) ==
    /\ r.verification_label \in run.verification_filter
    /\ r.sentiment_label \in run.sentiment_filter
    /\ run.min_words <= r.word_count
    /\ r.word_count <= run.max_words

Shown(df, r) == \E k \in 1..Len(df) : df[k] = r

\* C1: the filter result is exactly the rows whose verification label is
\* allowed, whose sentiment label is allowed and whose word count lies in
\* [min_words, max_words], both ends included: none of them is left out, no
\* other row is taken, and no row is taken twice.
C1_FilterIsExactConjunction ==
    "filter" \in run.reached =>
        /\ \A i \in 1..Len(run.reviews_df) :
               Shown(run.filtered_df, run.reviews_df[i]) <=> Matches(run.reviews_df[i])
        /\ \A k \in 1..Len(run.filtered_df) : Shown(run.reviews_df, run.filtered_df[k])
        /\ \A j, k \in 1..Len(run.filtered_df) :
               run.filtered_df[j].idx = run.filtered_df[k].idx => j = k

\* A run whose range is a single word count: a row of exactly that length is
\* taken and another row is left out.
C1_Witness ==
    /\ "filter" \in run.reached
    /\ run.min_words = run.max_words
    /\ \E k \in 1..Len(run.filtered_df) : run.filtered_df[k].word_count = run.min_words
    /\ Len(run.filtered_df) < Len(run.reviews_df)

\* C2: every compound score in [-1, 1] gets exactly one label, by the
\* intervals (-1.01, -0.05] Negative, (-0.05, 0.05] Neutral, (0.05, 1.01]
\* Positive; -0.05 is Negative, 0.05 is Neutral, 0.0501 is Positive.
C2_BucketingTotalAndDisjoint ==
    pc = "output" =>
        /\ res \in SentimentOptions
        /\ res = "Negative" <=> (-10100 < arg /\ arg <= -500)
        /\ res = "Neutral" <=> (-500 < arg /\ arg <= 500)
        /\ res = "Positive" <=> (500 < arg /\ arg <= 10100)
        /\ arg = -500 => res = "Negative"
        /\ arg = 500 => res = "Neutral"
        /\ arg = 501 => res = "Positive"

C2_Witness == pc = "output" /\ arg = 500 /\ res = "Neutral"

\* C3: when the trimmed input holds one of the two marker literals, the clean
\* text holds neither.
C3_CleanTextHasNoMarker ==
    pc = "output" /\ (Contains(arg, MarkerVerified) \/ Contains(arg, MarkerNotVerified)) =>
        /\ ~Contains(res.clean_review, MarkerVerified)
        /\ ~Contains(res.clean_review, MarkerNotVerified)

\* The body of load_reviews ran in the current run (no memoized frame).
BodyRan == pc # "load" /\ "load" \in run.reached /\ ~run.load_hit

NeitherExists == ~files[Preferred].exists /\ ~files[Secondary].exists

HasReviews(table) == table.exists /\ "reviews" \in Columns(table.header)

\* C4: the loader reads the preferred file, and the secondary one only when
\* the preferred is absent; with neither file, or with no `reviews` column in
\* the file read, the run ends in the loader's error and never reaches scoring.
C4_LoaderOrderAndFatalErrors ==
    BodyRan =>
        /\ run.csv_path = (IF files[Preferred].exists THEN Preferred ELSE Secondary)
        /\ (NeitherExists \/ ~HasReviews(files[run.csv_path])) =>
               /\ pc = "failed"
               /\ run.err = (IF NeitherExists THEN FileNotFoundError ELSE MissingColumnError)
               /\ "score" \notin run.reached
               /\ run.reviews_df = <<>>
               /\ ~load_cache.hit

\* The preferred file is absent, the secondary one lacks the column.
C4_Witness ==
    /\ BodyRan
    /\ run.csv_path = Secondary
    /\ files[Secondary].exists
    /\ pc = "failed"
    /\ run.err = MissingColumnError

\* C5: a table whose header holds `reviews` loads, whether or not an index
\* column comes first, and the frame is the normalized values of that column.
C5_ReviewsColumnAlwaysLoads ==
    BodyRan /\ HasReviews(files[run.csv_path]) =>
        /\ run.err \notin LoadErrors
        /\ load_cache.hit
        /\ \A i \in 1..Len(files[run.csv_path].rows) :
               load_cache.df[i].clean_review = CleanReview(StrStrip(files[run.csv_path].rows[i]))

Min(a, b) == IF a <= b THEN a ELSE b

\* C6: the default lower handle is max(word_min, 50) clamped to word_max, so
\* word_min <= default_low <= word_max.
C6_DefaultLowWithinRange ==
    "widgets" \in run.reached =>
        /\ run.default_low = Min(Max(run.word_min, WordFloor), run.word_max)
        /\ run.word_min <= run.default_low
        /\ run.default_low <= run.word_max

\* C7: a filter that takes no row (always so when no verification label is
\* allowed) ends the run without an exception, and the presentation layer
\* gets the warning and nothing of the metrics branch.
C7_EmptyResultOnlyWarns ==
    /\ "filter" \in run.reached /\ run.verification_filter = {} => run.filtered_df = <<>>
    /\ "render" \in run.reached /\ run.filtered_df = <<>> =>
           /\ pc = "done"
           /\ run.err = NoError
           /\ presented.signals = {"warning"}
           /\ presented.signals \cap MetricsBranch = {}
           /\ presented.frame = <<>>

C7_Witness ==
    /\ pc = "done"
    /\ run.verification_filter = {}
    /\ run.reviews_df # <<>>
    /\ presented.signals = {"warning"}

\* The full scored record set the process holds.
FullScored == Concat(load_cache.df, score_cache[TextSeries(load_cache.df)])

\* C8: what is shown after a run is the filter of the full scored record set
\* under the criteria the session holds now, whatever was chosen or shown
\* before, and filtering the shown rows again by the same criteria changes
\* nothing.
C8_ShownFollowsCurrentCriteria ==
    pc = "done" =>
        /\ presented.frame = FilterRows(FullScored, session.verification,
                                        session.sentiment, session.low, session.high)
        /\ FilterRows(presented.frame, session.verification, session.sentiment,
                      session.low, session.high) = presented.frame

\* The result that the last criteria change replaced left rows out, and now
\* every row is shown.
C8_Witness ==
    /\ pc = "done"
    /\ narrowed
    /\ ~session.fresh
    /\ presented.frame # <<>>
    /\ Len(presented.frame) = Len(load_cache.df)

\* C9: the analyzer runs at most once on a text series; a run that passes a
\* series already scored gets the memoized frame, equal to the first scoring.
C9_ScoredAtMostOnce ==
    /\ \A k \in DOMAIN model_calls : model_calls[k] <= 1
    /\ DOMAIN model_calls = DOMAIN score_cache
    /\ "score" \in run.reached /\ pc # "score" =>
           LET series == TextSeries(run.reviews_df)
           IN  /\ series \in DOMAIN score_cache
               /\ \A i \in 1..Len(series) :
                      /\ run.reviews_df[i].compound = lexicon[series[i]]
                      /\ run.reviews_df[i].compound = score_cache[series][i].compound
                      /\ run.reviews_df[i].sentiment_label
                             = score_cache[series][i].sentiment_label

\* A re-execution served from the memo.
C9_Witness ==
    /\ pc = "done"
    /\ run.score_hit
    /\ model_calls[TextSeries(run.reviews_df)] = 1

\* The frame the loader would build from the files as they are now.
FreshFrame == LoadReviews(files).df

\* C10 as stated: records in memory are never stale with respect to the
\* source files.
C10_RecordsNeverStale ==
    "load" \in run.reached /\ pc \notin {"load", "failed"} => load_cache.df = FreshFrame

\* C10 amended: the record set is built at most once in the process; every
\* later run takes the memoized frame, whatever the files hold by then.
C10_LoadedOncePerProcess ==
    /\ load_runs <= 1
    /\ load_cache.hit <=> load_runs = 1
    /\ "load" \in run.reached /\ pc \notin {"load", "failed"} =>
           /\ load_cache.hit
           /\ TextSeries(run.reviews_df) = TextSeries(load_cache.df)

\* A run that finished on the memoized frame after the files changed.
C10_Witness ==
    /\ pc = "done"
    /\ run.load_hit
    /\ load_cache.df # FreshFrame

=============================================================================
